---- MODULE Spec2Model ----
(***************************************************************************)
(* A model of the client-side indexing and search subsystem of the Logic   *)
(* Designer viewer: the search index service (FlexSearch wrapper), the     *)
(* IndexedDB document store, the application context that rebuilds the     *)
(* index from the store, the upload handlers that drive ingestion, and the *)
(* debounced search effect of the content route and the search dialog.     *)
(*                                                                         *)
(* Text is modelled as a sequence of one-character strings.  Promises are  *)
(* modelled at await granularity: one action per synchronous stretch of a  *)
(* handler between two suspension points.                                  *)
(***************************************************************************)
EXTENDS Integers, Sequences, FiniteSets, TLC

VARIABLES
    index,            \* SearchIndexService.index: [isNull, docs] (docs in registration order)
    definitionsMap,   \* SearchIndexService.definitionsMap: set of definitions, one per id
    isIndexed,        \* SearchIndexService.isIndexed
    build,            \* the buildIndex call in progress or last finished
    builtSinceClear,  \* history: a buildIndex call resolved since the last clear()
    svcSearch,        \* the service-level search call in progress or last finished
    store,            \* the IndexedDB object stores: definitions, categories, metadata
    storedEver,       \* history: every definition a transaction has put in the store
    isDataLoaded,     \* AppProvider state
    isIndexing,       \* AppProvider state
    categories,       \* AppProvider state
    stats,            \* AppProvider state
    uploadedFile,     \* AppProvider state: the name of the uploaded file, "" for null
    run,              \* the handleUpload call in progress or last finished
    justCompleted,    \* history: the ingestion operation whose last step was just taken
    route,            \* the mounted search component: "content" or "dialog"
    searchQuery,      \* component state (query in SearchDialog)
    searchFilterType, \* component state (filterType in SearchDialog)
    selectedCategoryId,    \* component state of the content route
    searchMode,            \* component state of the content route
    advancedSearchQuery,   \* component state of the content route
    advancedSearchLogic,   \* component state of the content route
    searchResults,    \* component state (results in SearchDialog)
    isSearching,      \* component state
    timers,           \* the pending debounce timers, each with the state its closure captured
    inflight,         \* the searches awaited by performSearch calls, in start order
    latestInFlight,   \* history: the most recently started search has not yet resolved
    surfaced,         \* history: whose outcome the last setSearchResults published
    fired,            \* history: the last run of performSearch
    probe,            \* a call of a pure function of the program: its arguments and result
    conn              \* IndexedDBService.db and initPromise, and the init() calls made

indexVars == <<index, definitionsMap, isIndexed, build, builtSinceClear>>

storeVars == <<store, storedEver>>

appVars == <<isDataLoaded, isIndexing, categories, stats, uploadedFile>>

ingestVars == <<store, storedEver, isDataLoaded, isIndexing, categories, stats,
                uploadedFile, run, justCompleted>>

depVars == <<searchQuery, searchFilterType, selectedCategoryId, searchMode,
             advancedSearchQuery, advancedSearchLogic>>

orchVars == <<route, searchQuery, searchFilterType, selectedCategoryId, searchMode,
              advancedSearchQuery, advancedSearchLogic, searchResults, isSearching,
              timers, inflight, latestInFlight, surfaced, fired>>

vars == <<index, definitionsMap, isIndexed, build, builtSinceClear, svcSearch,
          store, storedEver, isDataLoaded, isIndexing, categories, stats,
          uploadedFile, run, justCompleted,
          route, searchQuery, searchFilterType, selectedCategoryId, searchMode,
          advancedSearchQuery, advancedSearchLogic, searchResults, isSearching,
          timers, inflight, latestInFlight, surfaced, fired, probe, conn>>

---------------------------------------------------------------------------
(* Text helpers                                                            *)

Min(a, b) == IF a < b THEN a ELSE b

Max(a, b) == IF a > b THEN a ELSE b

\* String.prototype.toLowerCase on the model's alphabet.
LowerChar(c) == IF c = "A" THEN "a" ELSE c

ToLowerCase(s) == [i \in 1..Len(s) |-> LowerChar(s[i])]

\* text.substring(start, end) with 0-based, end-exclusive offsets.
Substring(s, start, end) == SubSeq(s, start + 1, end)

\* text.indexOf(q): the 0-based offset of the first occurrence, or -1.
IndexOf(text, q) ==
    LET hits == {i \in 0..(Len(text) - Len(q)) : Substring(text, i, i + Len(q)) = q}
    IN  IF hits = {} THEN -1 ELSE CHOOSE i \in hits : \A j \in hits : i <= j

IsSeparator(c) == c \in {" ", "\n"}

\* The words of a text: its maximal runs of non-separator characters.
Words(text) ==
    {SubSeq(text, i, j) : <<i, j>> \in
        {p \in (1..Len(text)) \X (1..Len(text)) :
            /\ p[1] <= p[2]
            /\ \A k \in p[1]..p[2] : ~IsSeparator(text[k])
            /\ (p[1] = 1 \/ IsSeparator(text[p[1] - 1]))
            /\ (p[2] = Len(text) \/ IsSeparator(text[p[2] + 1]))}}

IsInfix(q, w) == IndexOf(w, q) # -1

---------------------------------------------------------------------------
(* Documents (user definitions)                                            *)

\* A UserDefinition.  hasData is FALSE when the parsed JSON carries no
\* definitionData object (the parser does not validate the shape); query and
\* script are <<>> when the payload has no such string or an empty one.
MkDefinition(id, cat, type, name, sort, hasData, query, script) ==
    [definitionId |-> id, categoryId |-> cat, definitionType |-> type,
     definitionName |-> name, sortNumber |-> sort, hasData |-> hasData,
     query |-> query, script |-> script]

DefA == MkDefinition("d1", "catA", "sql", <<"A", "b">>, 1, TRUE, <<"c">>, <<>>)

DefB == MkDefinition("d2", "catB", "javascript", <<"a", "b", "c">>, 1, TRUE, <<>>, <<"x", "\n", "a", "b">>)

DefBad == MkDefinition("d3", "catB", "sql", <<"a", "b">>, 2, FALSE, <<>>, <<>>)

Definitions == {DefA, DefB, DefBad}

\* The longest definitions list handed to buildIndex.
MaxDefs == 2

RECURSIVE ListsOver(_, _)
\* The lists of at most n definitions of S with pairwise different ids.
ListsOver(S, n) ==
    IF n = 0 THEN {<<>>}
    ELSE LET shorter == ListsOver(S, n - 1)
         IN  shorter \cup
             {Append(l, d) : <<l, d>> \in
                 {p \in shorter \X S :
                     /\ Len(p[1]) = n - 1
                     /\ \A i \in 1..Len(p[1]) : p[1][i].definitionId # p[2].definitionId}}

DefinitionLists == ListsOver(Definitions, MaxDefs)

\* JSON.stringify(definitionData, null, 2), as a text that holds both strings.
Stringify(d) == <<"{">> \o d.query \o <<";">> \o d.script \o <<"}">>

\* Reading definitionData.elementProperties of a definition without
\* definitionData throws a TypeError.
ExtractThrows(d) == ~d.hasData

ExtractDefinitionContent(d) ==
    IF d.definitionType = "sql" /\ d.query # <<>> THEN d.query
    ELSE IF d.definitionType = "javascript" /\ d.script # <<>> THEN d.script
    ELSE Stringify(d)

---------------------------------------------------------------------------
(* The FlexSearch document index, as the service uses it                   *)

\* The SearchDocument buildIndex hands to addAsync.
SearchDocument(d) ==
    [definitionId |-> d.definitionId, definitionName |-> d.definitionName,
     content |-> ExtractDefinitionContent(d), categoryId |-> d.categoryId,
     definitionType |-> d.definitionType]

NullIndex == [isNull |-> TRUE, docs |-> <<>>]

NewIndex == [isNull |-> FALSE, docs |-> <<>>]

\* initIndex: keeps an existing index, creates one only when there is none.
InitIndex(idx) == IF ~idx.isNull THEN idx ELSE NewIndex

\* An add that takes a registered id out of the index and leaves it out.
AddDocDropsKnown(docs, doc) ==
    LET Other(x) == x.definitionId # doc.definitionId
    IN  IF \E i \in 1..Len(docs) : docs[i].definitionId = doc.definitionId
        THEN SelectSeq(docs, Other)
        ELSE Append(docs, doc)

\* Document.add: a document whose id is registered is updated (removed, then
\* added again); a new one is registered last.
AddDoc(docs, doc) ==
    LET Other(x) == x.definitionId # doc.definitionId
    IN  Append(SelectSeq(docs, Other), doc)

\* tokenize 'full' with the default encoder: case-insensitive, every term of
\* the query must occur inside some word of the field.
FlexMatch(text, query) ==
    LET terms == Words(ToLowerCase(query))
        words == Words(ToLowerCase(text))
    IN  /\ terms # {}
        /\ \A t \in terms : \E w \in words : IsInfix(t, w)

\* index.searchAsync(query, limit, {index: [field]}) for one field: at most
\* limit ids, in registration order.
FlexHits(docs, field, query, limit) ==
    LET Hit(doc) == FlexMatch(doc[field], query)
        all == SelectSeq(docs, Hit)
    IN  [i \in 1..Min(limit, Len(all)) |-> all[i].definitionId]

RECURSIVE FlexSearch(_, _, _, _)
\* The enriched result of searchAsync, flattened in order: one <<field, id>>
\* per item of each field's result, fields in the order asked for.
FlexSearch(docs, fields, query, limit) ==
    IF fields = <<>> THEN <<>>
    ELSE LET ids == FlexHits(docs, Head(fields), query, limit)
         IN  [i \in 1..Len(ids) |-> <<Head(fields), ids[i]>>]
             \o FlexSearch(docs, Tail(fields), query, limit)

---------------------------------------------------------------------------
(* SearchIndexService                                                      *)

ContextLength == 100

DefaultLimit == 50

DefaultFields == <<"definitionName", "content">>

Ellipsis == <<".", ".", ".">>

\* A position search that compares the text and the query as they are.
CreateSnippetCaseSensitive(text, query) ==
    LET at == IndexOf(text, query)
    IN  IF at = -1
        THEN [snippet |-> Substring(text, 0, Min(Len(text), ContextLength)) \o Ellipsis,
              hasPosition |-> FALSE, lineNumber |-> 0, column |-> 0]
        ELSE LET before == Substring(text, 0, at)
                 breaks == {i \in 1..Len(before) : before[i] = "\n"}
                 lastBreak == IF breaks = {} THEN 0
                              ELSE CHOOSE i \in breaks : \A j \in breaks : j <= i
             IN  [snippet |-> text, hasPosition |-> TRUE,
                  lineNumber |-> Cardinality(breaks) + 1,
                  column |-> (Len(before) - lastBreak) + 1]

\* A snippet function that reports line 1, column 1 for a query it has not
\* found.
CreateSnippetPositionsMiss(text, query) ==
    [snippet |-> Substring(text, 0, Min(Len(text), ContextLength)) \o Ellipsis,
     hasPosition |-> TRUE, lineNumber |-> 1, column |-> 1]

CreateSnippetWithPosition(text, query) ==
    LET at == IndexOf(ToLowerCase(text), ToLowerCase(query))
    IN  IF at = -1
        THEN [snippet |-> Substring(text, 0, Min(Len(text), ContextLength)) \o Ellipsis,
              hasPosition |-> FALSE, lineNumber |-> 0, column |-> 0]
        ELSE LET before == Substring(text, 0, at)
                 breaks == {i \in 1..Len(before) : before[i] = "\n"}
                 lastBreak == IF breaks = {} THEN 0
                              ELSE CHOOSE i \in breaks : \A j \in breaks : j <= i
                 start == Max(0, at - (ContextLength \div 2))
                 end == Min(Len(text), at + Len(query) + (ContextLength \div 2))
             IN  [snippet |-> (IF start > 0 THEN Ellipsis ELSE <<>>)
                              \o Substring(text, start, end)
                              \o (IF end < Len(text) THEN Ellipsis ELSE <<>>),
                  hasPosition |-> TRUE,
                  lineNumber |-> Cardinality(breaks) + 1,
                  column |-> (Len(before) - lastBreak) + 1]

\* A search options object; "" and FALSE stand for an absent (undefined) key.
MkOptions(hasLimit, limit, hasFields, fields, type, cat) ==
    [hasLimit |-> hasLimit, limit |-> limit, hasFields |-> hasFields,
     fields |-> fields, definitionType |-> type, categoryId |-> cat]

OptLimit(o) == IF o.hasLimit THEN o.limit ELSE DefaultLimit

OptFields(o) == IF o.hasFields THEN o.fields ELSE DefaultFields

\* A guard that looks at the index object alone.
SearchNotReadyIndexOnly(idx, indexed) == idx.isNull

\* The guard of search and searchNames.
SearchNotReady(idx, indexed) == idx.isNull \/ ~indexed

MapHas(map, id) == \E d \in map : d.definitionId = id

MapGet(map, id) == CHOOSE d \in map : d.definitionId = id

MapSet(map, d) == {x \in map : x.definitionId # d.definitionId} \cup {d}

RECURSIVE FormatResults(_, _, _, _, _, _)
\* The loop of search over the engine's items: skip ids already added, ids
\* the map does not hold and definitions the filters reject.
FormatResults(items, seenIds, map, query, type, cat) ==
    IF items = <<>> THEN <<>>
    ELSE LET field == Head(items)[1]
             id == Head(items)[2]
             skip == \/ id \in seenIds
                     \/ ~MapHas(map, id)
                     \/ (type # "" /\ MapGet(map, id).definitionType # type)
                     \/ (cat # "" /\ MapGet(map, id).categoryId # cat)
         IN  IF skip
             THEN FormatResults(Tail(items), seenIds, map, query, type, cat)
             ELSE LET definition == MapGet(map, id)
                      text == IF field = "content"
                              THEN ExtractDefinitionContent(definition)
                              ELSE definition.definitionName
                      info == CreateSnippetWithPosition(text, query)
                  IN  <<[definition |-> definition,
                         matches |-> <<[field |-> field, snippet |-> info.snippet,
                                        hasPosition |-> info.hasPosition,
                                        lineNumber |-> info.lineNumber,
                                        column |-> info.column,
                                        matchLength |-> Len(query)]>>,
                         score |-> 1]>>
                      \o FormatResults(Tail(items), seenIds \cup {id}, map, query, type, cat)

\* What search(query, options) resolves to on an index object holding docs.
SearchResults(docs, map, query, o) ==
    FormatResults(FlexSearch(docs, OptFields(o), query, OptLimit(o)),
                  {}, map, query, o.definitionType, o.categoryId)

IsReady == isIndexed

\* A clear() that drops the index and the map and keeps the flag.
ClearIsIndexedKept(indexed) == indexed

\* clear() leaves isIndexed false.
ClearIsIndexed(indexed) == FALSE

\* A buildIndex call: its argument, the definitions not yet reached by the
\* loop, and the document whose addAsync is awaited.
IdleBuild == [status |-> "idle", definitions |-> <<>>, rest |-> <<>>, pending |-> <<>>]

FinishedBuild(status, definitions) ==
    [status |-> status, definitions |-> definitions, rest |-> <<>>, pending |-> <<>>]

\* One turn of the loop of buildIndex from the definition at the head of todo
\* up to its await, or the end of the call when todo is empty: extract the
\* content, enter the definition in the map, call addAsync on this.index.
BuildLoop(idx, map, definitions, todo) ==
    IF todo = <<>>
    THEN /\ definitionsMap' = map
         /\ isIndexed' = TRUE
         /\ build' = FinishedBuild("done", definitions)
    ELSE IF ExtractThrows(Head(todo))
    THEN /\ definitionsMap' = map
         /\ build' = FinishedBuild("failed", definitions)
         /\ UNCHANGED isIndexed
    ELSE IF idx.isNull
    THEN \* this.index is null: the call of addAsync throws a TypeError
         /\ definitionsMap' = MapSet(map, Head(todo))
         /\ build' = FinishedBuild("failed", definitions)
         /\ UNCHANGED isIndexed
    ELSE /\ definitionsMap' = MapSet(map, Head(todo))
         /\ build' = [status |-> "adding", definitions |-> definitions,
                      rest |-> Tail(todo), pending |-> <<Head(todo)>>]
         /\ UNCHANGED isIndexed

\* buildIndex(definitions) up to its first await.
BuildIndexStart(definitions) ==
    /\ build.status # "adding"
    /\ index' = InitIndex(index)
    /\ BuildLoop(InitIndex(index), {}, definitions, definitions)
    /\ builtSinceClear' = (builtSinceClear \/ build'.status = "done")

\* The awaited addAsync resolves: the engine has registered the document (in
\* the index object the call was made on), and the loop goes on.
BuildIndexResume ==
    /\ build.status = "adding"
    /\ index' = IF index.isNull THEN index
                ELSE [index EXCEPT !.docs = AddDoc(@, SearchDocument(build.pending[1]))]
    /\ BuildLoop(index', definitionsMap, build.definitions, build.rest)
    /\ builtSinceClear' = (builtSinceClear \/ build'.status = "done")

\* A search call: the query, the options, and the index object it was made on
\* once clear() has dropped it from the service.
IdleSearch ==
    [phase |-> "idle", query |-> <<>>, options |-> MkOptions(FALSE, 0, FALSE, <<>>, "", ""),
     builtAtCall |-> FALSE, detached |-> FALSE, object |-> <<>>, results |-> <<>>]

\* search(query, options) up to its await: not ready throws.
SearchCall(query, o) ==
    IF SearchNotReady(index, isIndexed)
    THEN [IdleSearch EXCEPT !.phase = "threw", !.query = query, !.options = o,
                            !.builtAtCall = builtSinceClear]
    ELSE [IdleSearch EXCEPT !.phase = "pending", !.query = query, !.options = o,
                            !.builtAtCall = builtSinceClear]

\* The documents of the index object a pending call searches.
SearchedDocs(call) == IF call.detached THEN call.object ELSE index.docs

\* searchAsync resolves and the results are formatted.
SearchResolve(call) ==
    [call EXCEPT !.phase = "done",
                 !.results = SearchResults(SearchedDocs(call), definitionsMap,
                                           call.query, call.options)]

\* clear() while the call is pending: the call keeps the dropped index object.
SearchDetach(call) ==
    IF call.phase = "pending" /\ ~call.detached
    THEN [call EXCEPT !.detached = TRUE, !.object = index.docs]
    ELSE call

\* clear()
ServiceClear ==
    /\ index' = NullIndex
    /\ definitionsMap' = {}
    /\ isIndexed' = ClearIsIndexed(isIndexed)
    /\ builtSinceClear' = FALSE


---------------------------------------------------------------------------
(* IndexedDBService: the document store                                    *)

\* The three object stores.  Categories are kept by their categoryId; meta
\* holds the keys present in the metadata store and the two counters.
MkStore(definitions, cats, keys, definitionCount, categoryCount) ==
    [definitions |-> definitions, categories |-> cats,
     meta |-> [keys |-> keys, definitionCount |-> definitionCount,
               categoryCount |-> categoryCount]]

EmptyStore == MkStore({}, {}, {}, 0, 0)

\* A clear that leaves the definitions store as it is.
StoreClearKeepsDefinitions(s) == [EmptyStore EXCEPT !.definitions = s.definitions]

\* A clear that leaves the metadata store as it is.
StoreClearKeepsMetadata(s) == [EmptyStore EXCEPT !.meta = s.meta]

\* clear(): one transaction clears the three object stores.
StoreClear(s) == EmptyStore

\* A write that adds every definition as a new record, whatever is stored.
PutAllKeepsOld(definitions, list) == definitions \cup {list[i] : i \in 1..Len(list)}

RECURSIVE PutAll(_, _)
\* put of each definition in turn: a definition with a stored id overwrites it.
PutAll(definitions, list) ==
    IF list = <<>> THEN definitions
    ELSE PutAll(MapSet(definitions, Head(list)), Tail(list))

SeqRange(list) == {list[i] : i \in 1..Len(list)}

\* saveParsedData(data): one transaction puts the categories, the definitions
\* and the three metadata entries.
SaveParsedData(s, data) ==
    MkStore(PutAll(s.definitions, data.userDefinitions),
            s.categories \cup SeqRange(data.userCategories),
            {"lastUpdated", "definitionCount", "categoryCount"},
            Len(data.userDefinitions), Len(data.userCategories))

\* appendParsedData(data): puts the categories and the definitions into the
\* existing content, without clearing.
AppendParsedData(s, data) ==
    [s EXCEPT !.definitions = PutAll(@, data.userDefinitions),
              !.categories = @ \cup SeqRange(data.userCategories)]

\* updateMetadata(key, value) for the two counters.
UpdateMetadata(s, key, value) ==
    [s EXCEPT !.meta = [@ EXCEPT !.keys = @ \cup {key}, ![key] = value]]

GetCategories(s) == s.categories

CountDefinitions(s) == Cardinality(s.definitions)

\* The keys of the definitions store in key order.
IdOrder == <<"d1", "d2", "d3">>

RECURSIVE InKeyOrder(_, _)
InKeyOrder(definitions, ids) ==
    IF ids = <<>> THEN <<>>
    ELSE (IF MapHas(definitions, Head(ids)) THEN <<MapGet(definitions, Head(ids))>> ELSE <<>>)
         \o InKeyOrder(definitions, Tail(ids))

\* A read that returns the first stored definition alone.
GetAllDefinitionsFirstOnly(s) ==
    LET all == InKeyOrder(s.definitions, IdOrder)
    IN  IF all = <<>> THEN <<>> ELSE <<Head(all)>>

\* getAllDefinitions(): store.getAll(), every definition in key order.
GetAllDefinitions(s) == InKeyOrder(s.definitions, IdOrder)

RECURSIVE SortBySortNumber(_)
\* Array.prototype.sort((a, b) => a.sortNumber - b.sortNumber): ascending and
\* stable, an element goes behind the elements that compare equal to it.
SortBySortNumber(list) ==
    IF list = <<>> THEN <<>>
    ELSE LET n == Len(list)
             sorted == SortBySortNumber(SubSeq(list, 1, n - 1))
             ahead == Cardinality({i \in 1..(n - 1) :
                                      sorted[i].sortNumber <= list[n].sortNumber})
         IN  SubSeq(sorted, 1, ahead) \o <<list[n]>> \o SubSeq(sorted, ahead + 1, n - 1)

\* The records the categoryId index returns for a key: index.getAll(key)
\* gives the records with that key in the order of their primary keys.
IndexGetAll(s, categoryId) ==
    LET InCategory(d) == d.categoryId = categoryId
    IN  SelectSeq(InKeyOrder(s.definitions, IdOrder), InCategory)

\* A read of one category that returns the records as the index gives them.
GetDefinitionsByCategoryUnsorted(s, categoryId) == IndexGetAll(s, categoryId)

\* getDefinitionsByCategory(categoryId): the records of the category, sorted
\* by sortNumber.
GetDefinitionsByCategory(s, categoryId) == SortBySortNumber(IndexGetAll(s, categoryId))

\* buildFileTree(parsed): one folder per category of the list, holding the
\* definitions of the category sorted by sortNumber.
BuildFileTree(parsed) ==
    [c \in 1..Len(parsed.userCategories) |->
        LET InCategory(d) == d.categoryId = parsed.userCategories[c]
        IN  [id |-> parsed.userCategories[c],
             children |-> SortBySortNumber(SelectSeq(parsed.userDefinitions, InCategory))]]

---------------------------------------------------------------------------
(* IndexedDBService.init: the connection                                   *)

\* db and initPromise of the service (0 for null), the number of
\* indexedDB.open calls, the init() calls that wait for initPromise, and what
\* the settled init() calls have given their callers: a handle, or Rejected;
\* overlapped records that a call was made while another was waiting.
Rejected == -1

ClosedConn ==
    [db |-> 0, initPromise |-> "null", opens |-> 0, calls |-> 0, waiting |-> 0,
     results |-> {}, overlapped |-> FALSE]

\* The service once the init() of initializeApp has opened the database.
OpenConn ==
    [db |-> 1, initPromise |-> "resolved", opens |-> 1, calls |-> 1, waiting |-> 0,
     results |-> {1}, overlapped |-> FALSE]

\* The most init() calls made.
MaxInitCalls == 3

\* An init that looks at db alone.
InitMustOpenDbOnly(c) == c.db = 0

\* init() goes on to indexedDB.open: neither db nor initPromise is set.
InitMustOpen(c) == c.db = 0 /\ c.initPromise = "null"

\* A caller calls init().
InitCall ==
    /\ conn.calls < MaxInitCalls
    /\ conn' =
         IF InitMustOpen(conn)
         THEN [conn EXCEPT !.calls = @ + 1, !.opens = @ + 1, !.initPromise = "pending",
                           !.waiting = @ + 1]
         ELSE IF conn.db # 0
         THEN [conn EXCEPT !.calls = @ + 1, !.results = @ \cup {conn.db}]
         ELSE IF conn.initPromise = "pending"
         THEN [conn EXCEPT !.calls = @ + 1, !.waiting = @ + 1, !.overlapped = TRUE]
         ELSE [conn EXCEPT !.calls = @ + 1, !.results = @ \cup {Rejected}]
    /\ UNCHANGED <<indexVars, svcSearch, ingestVars, orchVars, probe>>

\* request.onsuccess of the latest open: db is set and initPromise resolves,
\* and with it every init() call that waits for it.
OpenSucceeds ==
    /\ conn.initPromise = "pending"
    /\ conn' = [conn EXCEPT !.db = conn.opens, !.initPromise = "resolved",
                            !.waiting = 0, !.results = @ \cup {conn.opens}]
    /\ UNCHANGED <<indexVars, svcSearch, ingestVars, orchVars, probe>>

\* request.onerror: initPromise rejects, and with it every waiting call.
OpenFails ==
    /\ conn.initPromise = "pending"
    /\ conn' = [conn EXCEPT !.initPromise = "rejected", !.waiting = 0,
                            !.results = @ \cup {Rejected}]
    /\ UNCHANGED <<indexVars, svcSearch, ingestVars, orchVars, probe>>

---------------------------------------------------------------------------
(* AppProvider (loadDataFromDB, clearData) and the upload handlers         *)

MkParsed(cats, definitions) == [userCategories |-> cats, userDefinitions |-> definitions]

\* The archives a user picks.  parseZipFile rejects an archive that is not ok.
MkFile(name, ok, data) == [name |-> name, ok |-> ok, data |-> data]

FileA == MkFile("a.zip", TRUE, MkParsed(<<"catA">>, <<DefA>>))

FileB == MkFile("b.zip", TRUE, MkParsed(<<"catB">>, <<DefB>>))

FileAB == MkFile("ab.zip", TRUE, MkParsed(<<"catA", "catB">>, <<DefA, DefB>>))

FileBad == MkFile("bad.zip", TRUE, MkParsed(<<"catB">>, <<DefB, DefBad>>))

FileCorrupt == MkFile("corrupt.zip", FALSE, MkParsed(<<>>, <<>>))

SingleFiles == {FileA, FileAB, FileBad, FileCorrupt}

MultiFiles == {FileA, FileB, FileCorrupt}

\* The most archives picked for one multi-file upload.
MaxFiles == 2

RECURSIVE FileLists(_)
FileLists(n) ==
    IF n = 0 THEN {<<>>}
    ELSE LET shorter == FileLists(n - 1)
         IN  shorter \cup {Append(l, f) : <<l, f>> \in
                              {p \in shorter \X MultiFiles : Len(p[1]) = n - 1}}

\* The steps of loadDataFromDB, each named by the call it awaits.
LoadSteps == <<"getCategories", "getAll", "build", "count">>

\* Single-file handleUpload with load ahead of save.
SingleUploadStepsLoadBeforeSave == <<"parse", "clear">> \o LoadSteps \o <<"save">>

\* Single-file handleUpload: the calls it awaits, in order.
SingleUploadSteps == <<"parse", "clear", "save">> \o LoadSteps

RECURSIVE PerFileStepsWithLoad(_)
\* A loop that reloads (and so rebuilds the index) after each file.
PerFileStepsWithLoad(n) ==
    IF n = 0 THEN <<>>
    ELSE <<"parse", "append", "getCategories", "getAll", "build", "count">>
         \o PerFileStepsWithLoad(n - 1)

RECURSIVE PerFileSteps(_)
PerFileSteps(n) == IF n = 0 THEN <<>> ELSE <<"parse", "append">> \o PerFileSteps(n - 1)

\* Multi-file handleUpload over n files: the calls it awaits, in order.
MultiUploadSteps(n) ==
    <<"clear">> \o PerFileSteps(n)
    \o <<"finalCategories", "finalCount", "metaCategoryCount", "metaDefinitionCount">>
    \o LoadSteps

\* The steps that write to the store.
MutationSteps == {"clear", "save", "append", "metaCategoryCount", "metaDefinitionCount"}

IdleRun ==
    [kind |-> "none", status |-> "idle", todo |-> <<>>, files |-> <<>>, i |-> 0,
     fileStatus |-> <<>>, parsed |-> MkParsed(<<>>, <<>>), cats |-> {},
     finalCategories |-> 0, finalCount |-> 0,
     prior |-> EmptyStore,  \* history: the store as the clear() of a single-file run
                            \* found it, kept until its saveParsedData resolves
     failed |-> {},         \* history: the files whose parse or store call rejected
     builds |-> 0,          \* history: the buildIndex calls the run has made
     interrupted |-> FALSE] \* history: clearData has run during the multi-file run

IngestInit ==
    /\ store = EmptyStore
    /\ storedEver = {}
    /\ isDataLoaded = FALSE
    /\ isIndexing = FALSE
    /\ categories = {}
    /\ stats = [definitionCount |-> 0, categoryCount |-> 0]
    /\ uploadedFile = ""
    /\ run = IdleRun
    /\ justCompleted = "none"

Awaiting(step) ==
    /\ run.status = "loading"
    /\ run.todo # <<>>
    /\ Head(run.todo) = step

\* The handler goes on after an awaited call: to the next await, or to its end,
\* where it publishes the uploaded file and the success status.
Proceed(r, rest) ==
    IF rest = <<>>
    THEN /\ run' = [r EXCEPT !.todo = <<>>, !.status = "success"]
         /\ uploadedFile' = r.files[1].name
         /\ justCompleted' = r.kind
    ELSE /\ run' = [r EXCEPT !.todo = rest]
         /\ uploadedFile' = uploadedFile
         /\ justCompleted' = "none"

\* The outer catch of handleUpload.
Fail(r) ==
    /\ run' = [r EXCEPT !.todo = <<>>, !.status = "error"]
    /\ uploadedFile' = uploadedFile
    /\ justCompleted' = "none"

\* A catch that hands the error of one file to the outer catch of handleUpload.
InnerCatchRethrows(r, rest) == Fail(r)

\* The inner catch of the multi-file loop: the error is recorded on the file
\* in hand and the loop goes on with the next file.
InnerCatch(r, rest) ==
    Proceed([r EXCEPT !.fileStatus[r.i] = "error", !.failed = @ \cup {r.i}, !.i = @ + 1],
            rest)

\* A store write commits.
Commit(s) ==
    /\ store' = s
    /\ storedEver' = storedEver \cup s.definitions

\* handleUpload up to its first await (single file).  The upload controls are
\* disabled while status is 'loading', so one run is in progress at a time.
HandleUpload ==
    /\ run.status # "loading"
    /\ \E f \in SingleFiles :
          run' = [IdleRun EXCEPT !.kind = "single", !.status = "loading",
                                 !.todo = SingleUploadSteps, !.files = <<f>>, !.i = 1,
                                 !.fileStatus = <<"pending">>]
    /\ justCompleted' = "none"
    /\ UNCHANGED <<indexVars, svcSearch, storeVars, appVars, orchVars, probe, conn>>

\* handleUpload up to its first await (multi file).
HandleUploadMulti ==
    /\ run.status # "loading"
    /\ \E fs \in FileLists(MaxFiles) \ {<<>>} :
          run' = [IdleRun EXCEPT !.kind = "multi", !.status = "loading",
                                 !.todo = MultiUploadSteps(Len(fs)), !.files = fs, !.i = 1,
                                 !.fileStatus = [k \in 1..Len(fs) |-> "pending"]]
    /\ justCompleted' = "none"
    /\ UNCHANGED <<indexVars, svcSearch, storeVars, appVars, orchVars, probe, conn>>

\* parseZipFile settles.  A rejection ends the single-file upload; in the
\* multi-file loop it is recorded on the file and the loop goes on.
ParseSettled ==
    /\ Awaiting("parse")
    /\ LET f == run.files[run.i]
       IN  IF f.ok
           THEN Proceed([run EXCEPT !.parsed = f.data, !.fileStatus[run.i] = "processing"],
                        Tail(run.todo))
           ELSE IF run.kind = "single"
           THEN Fail(run)
           ELSE InnerCatch(run, Tail(Tail(run.todo)))
    /\ UNCHANGED <<indexVars, svcSearch, storeVars, isDataLoaded, isIndexing, categories, stats, orchVars, probe, conn>>

\* indexedDBService.clear() resolves.
StoreCleared ==
    /\ Awaiting("clear")
    /\ Commit(StoreClear(store))
    /\ Proceed([run EXCEPT !.prior = IF run.kind = "single" THEN store ELSE EmptyStore],
               Tail(run.todo))
    /\ UNCHANGED <<indexVars, svcSearch, isDataLoaded, isIndexing, categories, stats, orchVars, probe, conn>>

\* indexedDBService.saveParsedData(parsed) resolves.
ParsedDataSaved ==
    /\ Awaiting("save")
    /\ Commit(SaveParsedData(store, run.parsed))
    /\ Proceed([run EXCEPT !.prior = EmptyStore], Tail(run.todo))
    /\ UNCHANGED <<indexVars, svcSearch, isDataLoaded, isIndexing, categories, stats, orchVars, probe, conn>>

\* indexedDBService.appendParsedData(parsed) resolves.
ParsedDataAppended ==
    /\ Awaiting("append")
    /\ Commit(AppendParsedData(store, run.parsed))
    /\ Proceed([run EXCEPT !.fileStatus[run.i] = "success", !.i = @ + 1], Tail(run.todo))
    /\ UNCHANGED <<indexVars, svcSearch, isDataLoaded, isIndexing, categories, stats, orchVars, probe, conn>>

\* indexedDBService.appendParsedData(parsed) rejects: its transaction has
\* written nothing, and the inner catch takes the error.
ParsedDataAppendRejected ==
    /\ Awaiting("append")
    /\ InnerCatch(run, Tail(run.todo))
    /\ UNCHANGED <<indexVars, svcSearch, storeVars, isDataLoaded, isIndexing, categories, stats, orchVars, probe, conn>>

\* The final counts of the multi-file upload are read.
FinalCategoriesRead ==
    /\ Awaiting("finalCategories")
    /\ Proceed([run EXCEPT !.finalCategories = Cardinality(GetCategories(store))],
               Tail(run.todo))
    /\ UNCHANGED <<indexVars, svcSearch, storeVars, isDataLoaded, isIndexing, categories, stats, orchVars, probe, conn>>

FinalCountRead ==
    /\ Awaiting("finalCount")
    /\ Proceed([run EXCEPT !.finalCount = CountDefinitions(store)], Tail(run.todo))
    /\ UNCHANGED <<indexVars, svcSearch, storeVars, isDataLoaded, isIndexing, categories, stats, orchVars, probe, conn>>

\* updateMetadata('categoryCount', ...) resolves.
CategoryCountUpdated ==
    /\ Awaiting("metaCategoryCount")
    /\ Commit(UpdateMetadata(store, "categoryCount", run.finalCategories))
    /\ Proceed(run, Tail(run.todo))
    /\ UNCHANGED <<indexVars, svcSearch, isDataLoaded, isIndexing, categories, stats, orchVars, probe, conn>>

\* updateMetadata('definitionCount', ...) resolves.
DefinitionCountUpdated ==
    /\ Awaiting("metaDefinitionCount")
    /\ Commit(UpdateMetadata(store, "definitionCount", run.finalCount))
    /\ Proceed(run, Tail(run.todo))
    /\ UNCHANGED <<indexVars, svcSearch, isDataLoaded, isIndexing, categories, stats, orchVars, probe, conn>>

\* loadDataFromDB: setIsIndexing(true), getCategories() resolves, setCategories.
CategoriesLoaded ==
    /\ Awaiting("getCategories")
    /\ isIndexing' = TRUE
    /\ categories' = GetCategories(store)
    /\ Proceed([run EXCEPT !.cats = GetCategories(store)], Tail(run.todo))
    /\ UNCHANGED <<indexVars, svcSearch, storeVars, isDataLoaded, stats, orchVars, probe, conn>>

\* loadDataFromDB after a step of buildIndex: go on awaiting addAsync, go on to
\* countDefinitions once the build has resolved, or rethrow its rejection
\* (finally: setIsIndexing(false)) into the catch of handleUpload.
AfterBuildStep(r, rest) ==
    IF build'.status = "failed"
    THEN /\ Fail(r)
         /\ isIndexing' = FALSE
    ELSE /\ Proceed(r, IF build'.status = "done" THEN Tail(rest) ELSE rest)
         /\ isIndexing' = isIndexing

\* loadDataFromDB: getAllDefinitions() resolves and buildIndex starts.
AllDefinitionsLoaded ==
    /\ Awaiting("getAll")
    /\ BuildIndexStart(GetAllDefinitions(store))
    /\ AfterBuildStep([run EXCEPT !.builds = @ + 1], Tail(run.todo))
    /\ UNCHANGED <<svcSearch, storeVars, isDataLoaded, categories, stats, orchVars, probe, conn>>

\* loadDataFromDB: the addAsync that buildIndex awaits resolves.
DefinitionAdded ==
    /\ Awaiting("build")
    /\ BuildIndexResume
    /\ AfterBuildStep(run, run.todo)
    /\ UNCHANGED <<svcSearch, storeVars, isDataLoaded, categories, stats, orchVars, probe, conn>>

\* loadDataFromDB: countDefinitions() resolves; setStats, setIsDataLoaded(true),
\* finally setIsIndexing(false).
DefinitionsCounted ==
    /\ Awaiting("count")
    /\ stats' = [definitionCount |-> CountDefinitions(store),
                 categoryCount |-> Cardinality(run.cats)]
    /\ isDataLoaded' = TRUE
    /\ isIndexing' = FALSE
    /\ Proceed(run, Tail(run.todo))
    /\ UNCHANGED <<indexVars, svcSearch, storeVars, categories, orchVars, probe, conn>>

\* clearData: indexedDBService.clear() resolves and the rest runs at once.
ClearData ==
    /\ Commit(StoreClear(store))
    /\ ServiceClear
    /\ svcSearch' = SearchDetach(svcSearch)
    /\ categories' = {}
    /\ stats' = [definitionCount |-> 0, categoryCount |-> 0]
    /\ isDataLoaded' = FALSE
    /\ uploadedFile' = ""
    /\ justCompleted' = "clearData"
    /\ run' = [run EXCEPT !.interrupted = @ \/ (run.kind = "multi" /\ run.status = "loading")]
    /\ UNCHANGED <<build, isIndexing, orchVars, probe, conn>>

IngestNext ==
    \/ HandleUpload
    \/ HandleUploadMulti
    \/ ParseSettled
    \/ StoreCleared
    \/ ParsedDataSaved
    \/ ParsedDataAppended
    \/ ParsedDataAppendRejected
    \/ FinalCategoriesRead
    \/ FinalCountRead
    \/ CategoryCountUpdated
    \/ DefinitionCountUpdated
    \/ CategoriesLoaded
    \/ AllDefinitionsLoaded
    \/ DefinitionAdded
    \/ DefinitionsCounted
    \/ ClearData

---------------------------------------------------------------------------
(* The search orchestrators: the content route and SearchDialog            *)

IsWhitespace(c) == c \in {" ", "\n"}

RECURSIVE TrimStart(_)
TrimStart(s) == IF s # <<>> /\ IsWhitespace(Head(s)) THEN TrimStart(Tail(s)) ELSE s

RECURSIVE TrimEnd(_)
TrimEnd(s) ==
    IF s # <<>> /\ IsWhitespace(s[Len(s)]) THEN TrimEnd(SubSeq(s, 1, Len(s) - 1)) ELSE s

\* String.prototype.trim
Trim(s) == TrimEnd(TrimStart(s))

RECURSIVE Split(_, _)
\* String.prototype.split(sep) for a one-character separator.
Split(s, sep) ==
    LET at == {i \in 1..Len(s) : s[i] = sep}
    IN  IF at = {} THEN <<s>>
        ELSE LET k == CHOOSE i \in at : \A j \in at : i <= j
             IN  <<SubSeq(s, 1, k - 1)>> \o Split(SubSeq(s, k + 1, Len(s)), sep)

RECURSIVE Join(_, _)
\* Array.prototype.join(sep)
Join(list, sep) ==
    IF list = <<>> THEN <<>>
    ELSE IF Len(list) = 1 THEN list[1]
    ELSE list[1] \o sep \o Join(Tail(list), sep)

Includes(text, q) == IndexOf(text, q) # -1

\* A test that lets a one-character query through.
ShortCircuitsEmptyOnly(q) == Trim(q) = <<>> \/ Len(q) < 1

\* The first test of performSearch: !query.trim() || query.length < 2.
ShortCircuits(q) == Trim(q) = <<>> \/ Len(q) < 2

ContentSearchLimit == 1000

DialogSearchLimit == 50

DebounceDelay == 300

\* The keywords of the advanced search string.
AdvancedKeywords(advancedQuery) ==
    LET pieces == Split(advancedQuery, ";")
        trimmed == [i \in 1..Len(pieces) |-> ToLowerCase(Trim(pieces[i]))]
        NonEmpty(k) == Len(k) > 0
    IN  SelectSeq(trimmed, NonEmpty)

\* The text the advanced filter looks into: the name, the (absent) sqlQuery
\* and javaScriptCode fields, and the snippets of the matches.
SearchableText(result) ==
    ToLowerCase(Join(<<result.definition.definitionName, <<>>, <<>>>>
                     \o [i \in 1..Len(result.matches) |-> result.matches[i].snippet],
                     <<" ">>))

\* The advanced filter of the content route.
AdvancedFilter(results, mode, advancedQuery, logic) ==
    IF mode = "advanced" /\ Trim(advancedQuery) # <<>>
    THEN LET keywords == AdvancedKeywords(advancedQuery)
             Keep(result) ==
                 IF logic = "AND"
                 THEN \A i \in 1..Len(keywords) : Includes(SearchableText(result), keywords[i])
                 ELSE \E i \in 1..Len(keywords) : Includes(SearchableText(result), keywords[i])
         IN  IF Len(keywords) > 0 THEN SelectSeq(results, Keep) ELSE results
    ELSE results

MkDeps(query, type, cat, mode, advancedQuery, logic) ==
    [searchQuery |-> query, searchFilterType |-> type, selectedCategoryId |-> cat,
     searchMode |-> mode, advancedSearchQuery |-> advancedQuery,
     advancedSearchLogic |-> logic]

\* The state the effect of the current render has captured.
CurrentDeps ==
    MkDeps(searchQuery, searchFilterType, selectedCategoryId, searchMode,
           advancedSearchQuery, advancedSearchLogic)

InitialDeps == MkDeps(<<>>, "all", "all", "basic", <<>>, "AND")

\* setTimeout(performSearch, 300) by the effect of a render.
MkTimer(deps, superseding) ==
    [deps |-> deps, delay |-> DebounceDelay, superseding |-> superseding]

\* The options performSearch passes to search.
OrchOptions(r, deps) ==
    LET type == IF deps.searchFilterType = "all" THEN "" ELSE deps.searchFilterType
        cat == IF deps.selectedCategoryId = "all" THEN "" ELSE deps.selectedCategoryId
    IN  IF r = "content"
        THEN MkOptions(TRUE, ContentSearchLimit, FALSE, <<>>, type, cat)
        ELSE MkOptions(TRUE, DialogSearchLimit, FALSE, <<>>, type, "")

\* An effect cleanup that leaves its timer pending.
ClearTimeoutKept(ts, deps) == ts

\* The effect cleanup: clearTimeout(timeoutId) of the timer the effect started.
ClearTimeout(ts, deps) == {t \in ts : t.deps # deps}

NotFired ==
    [ran |-> FALSE, query |-> <<>>, invoked |-> FALSE, setEmpty |-> FALSE,
     current |-> TRUE]

\* No search component is mounted.
Unmounted ==
    /\ route = "none"
    /\ searchQuery = <<>>
    /\ searchFilterType = "all"
    /\ selectedCategoryId = "all"
    /\ searchMode = "basic"
    /\ advancedSearchQuery = <<>>
    /\ advancedSearchLogic = "AND"
    /\ searchResults = <<>>
    /\ isSearching = FALSE
    /\ timers = {}
    /\ inflight = <<>>
    /\ latestInFlight = FALSE
    /\ surfaced = "none"
    /\ fired = NotFired

\* The component has mounted: its state is initial and the effect of the first
\* render has started its timer.
Mounted ==
    /\ route \in {"content", "dialog"}
    /\ searchQuery = <<>>
    /\ searchFilterType = "all"
    /\ selectedCategoryId = "all"
    /\ searchMode = "basic"
    /\ advancedSearchQuery = <<>>
    /\ advancedSearchLogic = "AND"
    /\ searchResults = <<>>
    /\ isSearching = FALSE
    /\ timers = {MkTimer(InitialDeps, FALSE)}
    /\ inflight = <<>>
    /\ latestInFlight = FALSE
    /\ surfaced = "none"
    /\ fired = NotFired

\* The texts the user types.
OrchQueries == {<<>>, <<"a">>, <<" ", " ">>, <<"a", "b">>, <<"c">>}

FilterTypes == {"all", "sql"}

CategoryChoices == {"all", "catB"}

SearchModes == {"basic", "advanced"}

AdvancedQueries == {<<>>, <<"c", ";", " ", "A">>}

SearchLogics == {"AND", "OR"}

\* The most searches awaited at one time.
MaxInFlight == 2

\* A state change re-renders: the cleanup of the previous effect runs and the
\* effect of the new render starts its timer.
Rerender(deps) ==
    /\ deps # CurrentDeps
    /\ searchQuery' = deps.searchQuery
    /\ searchFilterType' = deps.searchFilterType
    /\ selectedCategoryId' = deps.selectedCategoryId
    /\ searchMode' = deps.searchMode
    /\ advancedSearchQuery' = deps.advancedSearchQuery
    /\ advancedSearchLogic' = deps.advancedSearchLogic
    /\ timers' = ClearTimeout(timers, CurrentDeps)
                 \cup {MkTimer(deps, \E t \in timers : t.deps = CurrentDeps)}

SetSearchQuery ==
    /\ route \in {"content", "dialog"}
    /\ \E q \in OrchQueries : Rerender([CurrentDeps EXCEPT !.searchQuery = q])
    /\ UNCHANGED <<indexVars, svcSearch, ingestVars, probe, conn, route, searchResults, isSearching,
                   inflight, latestInFlight, surfaced, fired>>

SetSearchFilterType ==
    /\ route \in {"content", "dialog"}
    /\ \E t \in FilterTypes : Rerender([CurrentDeps EXCEPT !.searchFilterType = t])
    /\ UNCHANGED <<indexVars, svcSearch, ingestVars, probe, conn, route, searchResults, isSearching,
                   inflight, latestInFlight, surfaced, fired>>

\* The category and the advanced settings are changed by the user while no
\* search is awaited; the query text and the type filter change at any moment.
SetSelectedCategoryId ==
    /\ route = "content"
    /\ inflight = <<>>
    /\ \E c \in CategoryChoices : Rerender([CurrentDeps EXCEPT !.selectedCategoryId = c])
    /\ UNCHANGED <<indexVars, svcSearch, ingestVars, probe, conn, route, searchResults, isSearching,
                   inflight, latestInFlight, surfaced, fired>>

SetSearchMode ==
    /\ route = "content"
    /\ inflight = <<>>
    /\ \E m \in SearchModes : Rerender([CurrentDeps EXCEPT !.searchMode = m])
    /\ UNCHANGED <<indexVars, svcSearch, ingestVars, probe, conn, route, searchResults, isSearching,
                   inflight, latestInFlight, surfaced, fired>>

SetAdvancedSearchQuery ==
    /\ route = "content"
    /\ inflight = <<>>
    /\ \E a \in AdvancedQueries : Rerender([CurrentDeps EXCEPT !.advancedSearchQuery = a])
    /\ UNCHANGED <<indexVars, svcSearch, ingestVars, probe, conn, route, searchResults, isSearching,
                   inflight, latestInFlight, surfaced, fired>>

SetAdvancedSearchLogic ==
    /\ route = "content"
    /\ inflight = <<>>
    /\ \E l \in SearchLogics : Rerender([CurrentDeps EXCEPT !.advancedSearchLogic = l])
    /\ UNCHANGED <<indexVars, svcSearch, ingestVars, probe, conn, route, searchResults, isSearching,
                   inflight, latestInFlight, surfaced, fired>>

\* The debounce timer t fires: performSearch runs up to its await, or to its
\* end when the query is short or search throws.
TimerFires ==
    \E t \in timers :
        LET q == t.deps.searchQuery
            call == SearchCall(q, OrchOptions(route, t.deps))
            ran == [NotFired EXCEPT !.ran = TRUE, !.query = q,
                                    !.current = (t.deps = CurrentDeps)]
        IN  /\ timers' = timers \ {t}
            /\ IF ShortCircuits(q)
               THEN /\ searchResults' = <<>>
                    /\ surfaced' = "latest"
                    /\ latestInFlight' = FALSE
                    /\ fired' = [ran EXCEPT !.setEmpty = TRUE]
                    /\ UNCHANGED <<isSearching, inflight>>
               ELSE IF call.phase = "threw"
               THEN /\ searchResults' = <<>>
                    /\ isSearching' = FALSE
                    /\ surfaced' = "latest"
                    /\ latestInFlight' = FALSE
                    /\ fired' = [ran EXCEPT !.invoked = TRUE, !.setEmpty = TRUE]
                    /\ UNCHANGED inflight
               ELSE /\ Len(inflight) < MaxInFlight
                    /\ inflight' = Append(inflight, [call |-> call, deps |-> t.deps])
                    /\ isSearching' = TRUE
                    /\ latestInFlight' = TRUE
                    /\ fired' = [ran EXCEPT !.invoked = TRUE]
                    /\ UNCHANGED <<searchResults, surfaced>>
            /\ UNCHANGED <<indexVars, svcSearch, ingestVars, probe, conn, route, depVars>>

\* What a performSearch call publishes once its search has resolved.
Published(r, item) ==
    LET results == SearchResolve(item.call).results
    IN  IF r = "content"
        THEN AdvancedFilter(results, item.deps.searchMode, item.deps.advancedSearchQuery,
                            item.deps.advancedSearchLogic)
        ELSE results

\* An awaited search resolves and its performSearch call runs to its end:
\* setSearchResults(results), finally setIsSearching(false).
SearchArrives ==
    \E k \in 1..Len(inflight) :
        LET isLatest == (k = Len(inflight) /\ latestInFlight)
        IN  /\ searchResults' = Published(route, inflight[k])
            /\ isSearching' = FALSE
            /\ inflight' = SubSeq(inflight, 1, k - 1) \o SubSeq(inflight, k + 1, Len(inflight))
            /\ surfaced' = IF isLatest THEN "latest" ELSE "superseded"
            /\ latestInFlight' = (latestInFlight /\ ~isLatest)
            /\ UNCHANGED <<indexVars, svcSearch, ingestVars, probe, conn, route, depVars, timers, fired>>

OrchNext ==
    \/ SetSearchQuery
    \/ SetSearchFilterType
    \/ SetSelectedCategoryId
    \/ SetSearchMode
    \/ SetAdvancedSearchQuery
    \/ SetAdvancedSearchLogic
    \/ TimerFires
    \/ SearchArrives

---------------------------------------------------------------------------
(* Pure functions of the program, applied to arguments drawn at the start  *)

NoProbe == [fn |-> "none", called |-> FALSE]

\* The characters of the texts that are drawn.
TextAlphabet == {"a", "A", "b", "\n"}

\* The longest text drawn.
MaxTextLen == 3

RECURSIVE TextsUpTo(_)
TextsUpTo(n) ==
    IF n = 0 THEN {<<>>}
    ELSE LET shorter == TextsUpTo(n - 1)
         IN  shorter \cup {Append(t, c) : <<t, c>> \in
                              {p \in shorter \X TextAlphabet : Len(p[1]) = n - 1}}

SnippetQueries == {<<"a">>, <<"b">>, <<"a", "b">>, <<"b", "\n">>}

\* The text "line1\nline2 needle here\n" and the query "needle".
NeedleText ==
    <<"l", "i", "n", "e", "1", "\n", "l", "i", "n", "e", "2", " ",
      "n", "e", "e", "d", "l", "e", " ", "h", "e", "r", "e", "\n">>

NeedleQuery == <<"n", "e", "e", "d", "l", "e">>

\* A text of one word that is one character longer than the snippet context.
LongText == [i \in 1..(ContextLength + 1) |-> "b"]

\* A call createSnippetWithPosition(text, query) about to be made.
SnippetProbes ==
    {[fn |-> "createSnippetWithPosition", called |-> FALSE, text |-> t, query |-> q,
      out |-> CreateSnippetWithPosition(<<>>, <<"a">>)] :
        <<t, q>> \in (TextsUpTo(MaxTextLen) \X SnippetQueries)
                        \cup {<<NeedleText, NeedleQuery>>, <<LongText, <<"b", "\n">>>>}}

CallCreateSnippetWithPosition ==
    /\ probe.fn = "createSnippetWithPosition"
    /\ ~probe.called
    /\ probe' = [probe EXCEPT !.called = TRUE,
                              !.out = CreateSnippetWithPosition(probe.text, probe.query)]
    /\ UNCHANGED <<indexVars, svcSearch, ingestVars, orchVars, conn>>

---------------------------------------------------------------------------
(* The service driven through its interface                                *)

SvcQueries == {<<"a", "b">>, <<"c">>}

SvcOptions ==
    { MkOptions(FALSE, 0, FALSE, <<>>, "", ""),
      MkOptions(TRUE, 1, FALSE, <<>>, "", ""),
      MkOptions(TRUE, 1, TRUE, <<"content">>, "", ""),
      MkOptions(TRUE, 2, FALSE, <<>>, "sql", ""),
      MkOptions(TRUE, 1, FALSE, <<>>, "sql", ""),
      MkOptions(FALSE, 0, FALSE, <<>>, "", "catB") }

RECURSIVE AddAll(_, _)
\* The documents of an index object after addAsync of each definition in turn.
AddAll(docs, definitions) ==
    IF definitions = <<>> THEN docs
    ELSE AddAll(AddDoc(docs, SearchDocument(Head(definitions))), Tail(definitions))

\* The service after buildIndex(definitions) on a newly constructed service.
FreshDocs(definitions) == AddAll(<<>>, definitions)

FreshMap(definitions) == {definitions[i] : i \in 1..Len(definitions)}

\* The payloads handed to extractDefinitionContent: every definitionType with
\* elementProperties.query and .script each absent, empty or not empty, and a
\* definition without definitionData.  The definition carries <<>> for an
\* absent and for an empty string (the code tests truthiness and does not tell
\* them apart); queryPresent and scriptPresent say which of the two it is.
ExtractProbes ==
    {[fn |-> "extractDefinitionContent", called |-> FALSE, displayed |-> FALSE,
      definition |-> MkDefinition("d1", "catA", type, <<"a">>, 1, hasData, q, sc),
      queryPresent |-> qp, scriptPresent |-> sp,
      threw |-> FALSE, out |-> <<>>, outAtDisplay |-> <<>>] :
        <<type, hasData, q, sc, qp, sp>> \in
            {t \in {"sql", "javascript", "other"} \X BOOLEAN
                    \X {<<>>, <<"c">>} \X {<<>>, <<"x">>} \X BOOLEAN \X BOOLEAN :
                /\ (t[3] # <<>> => t[5])
                /\ (t[4] # <<>> => t[6])
                /\ (~t[2] => (t[3] = <<>> /\ t[4] = <<>> /\ ~t[5] /\ ~t[6]))}}

\* extractDefinitionContent(definition) is called when the index is built.
CallExtractDefinitionContent ==
    /\ probe.fn = "extractDefinitionContent"
    /\ ~probe.called
    /\ probe' = [probe EXCEPT !.called = TRUE,
                              !.threw = ExtractThrows(probe.definition),
                              !.out = IF ExtractThrows(probe.definition) THEN <<>>
                                      ELSE ExtractDefinitionContent(probe.definition)]
    /\ UNCHANGED <<indexVars, svcSearch, ingestVars, orchVars, conn>>

\* extractDefinitionContent(definition) is called again when the definition
\* is displayed.
CallExtractDefinitionContentAgain ==
    /\ probe.fn = "extractDefinitionContent"
    /\ probe.called
    /\ ~probe.displayed
    /\ probe' = [probe EXCEPT !.displayed = TRUE,
                              !.outAtDisplay = IF ExtractThrows(probe.definition) THEN <<>>
                                               ELSE ExtractDefinitionContent(probe.definition)]
    /\ UNCHANGED <<indexVars, svcSearch, ingestVars, orchVars, conn>>


\* The service as constructed.
FreshService ==
    /\ index = NullIndex
    /\ definitionsMap = {}
    /\ isIndexed = FALSE
    /\ build = IdleBuild
    /\ builtSinceClear = FALSE
    /\ svcSearch = IdleSearch

SvcInit ==
    /\ FreshService
    /\ IngestInit
    /\ Unmounted
    /\ probe = NoProbe
    /\ conn = OpenConn

SvcBuildIndex ==
    /\ \E definitions \in DefinitionLists : BuildIndexStart(definitions)
    /\ UNCHANGED <<svcSearch, ingestVars, orchVars, probe, conn>>

SvcAddResolved ==
    /\ BuildIndexResume
    /\ UNCHANGED <<svcSearch, ingestVars, orchVars, probe, conn>>

SvcClear ==
    /\ ServiceClear
    /\ svcSearch' = SearchDetach(svcSearch)
    /\ UNCHANGED <<build, ingestVars, orchVars, probe, conn>>

SvcSearch ==
    /\ svcSearch.phase # "pending"
    /\ \E q \in SvcQueries, o \in SvcOptions : svcSearch' = SearchCall(q, o)
    /\ UNCHANGED <<indexVars, ingestVars, orchVars, probe, conn>>

SvcSearchResolved ==
    /\ svcSearch.phase = "pending"
    /\ svcSearch' = SearchResolve(svcSearch)
    /\ UNCHANGED <<indexVars, ingestVars, orchVars, probe, conn>>

SvcNext ==
    \/ SvcBuildIndex
    \/ SvcAddResolved
    \/ SvcClear
    \/ SvcSearch
    \/ SvcSearchResolved

SpecIndex == SvcInit /\ [][SvcNext]_vars

\* The application: uploads one at a time, clearData at any moment.
SpecIngest == SvcInit /\ [][IngestNext]_vars

\* The application once the single-file upload of FileAB has completed.
Loaded ==
    /\ index = [isNull |-> FALSE, docs |-> FreshDocs(FileAB.data.userDefinitions)]
    /\ definitionsMap = FreshMap(FileAB.data.userDefinitions)
    /\ isIndexed = TRUE
    /\ build = FinishedBuild("done", FileAB.data.userDefinitions)
    /\ builtSinceClear = TRUE
    /\ svcSearch = IdleSearch
    /\ store = SaveParsedData(EmptyStore, FileAB.data)
    /\ storedEver = FreshMap(FileAB.data.userDefinitions)
    /\ isDataLoaded = TRUE
    /\ isIndexing = FALSE
    /\ categories = SeqRange(FileAB.data.userCategories)
    /\ stats = [definitionCount |-> 2, categoryCount |-> 2]
    /\ uploadedFile = FileAB.name
    /\ run = [IdleRun EXCEPT !.kind = "single", !.status = "success", !.files = <<FileAB>>,
                             !.i = 1, !.fileStatus = <<"processing">>,
                             !.parsed = FileAB.data,
                             !.cats = SeqRange(FileAB.data.userCategories)]
    /\ justCompleted = "single"

\* A search component mounts over an empty application or over a loaded one.
OrchInit ==
    /\ (FreshService /\ IngestInit) \/ Loaded
    /\ Mounted
    /\ probe = NoProbe
    /\ conn = OpenConn

\* The search component under typing, filter changes, timers and searches
\* that resolve in any order.
SpecOrch == OrchInit /\ [][OrchNext]_vars

TextInit ==
    /\ FreshService
    /\ IngestInit
    /\ Unmounted
    /\ probe \in SnippetProbes \cup ExtractProbes
    /\ conn = OpenConn

TextNext ==
    \/ CallCreateSnippetWithPosition
    \/ CallExtractDefinitionContent
    \/ CallExtractDefinitionContentAgain

\* The text functions of the service, each called once on drawn arguments.
SpecText == TextInit /\ [][TextNext]_vars

---------------------------------------------------------------------------
(* The operations of IndexedDBService, called in any order                 *)

\* A definition with the id of DefA and another payload.
DefA2 == MkDefinition("d1", "catA", "sql", <<"a", "b", "c">>, 1, TRUE, <<"a">>, <<>>)

\* A definition of the category of DefA with its sortNumber and a later id.
DefTie == MkDefinition("d2", "catA", "sql", <<"a", "b">>, 1, TRUE, <<"c">>, <<>>)

\* A definition of the category of DefA with a smaller sortNumber and a later id.
DefEarly == MkDefinition("d3", "catA", "sql", <<"a">>, 0, TRUE, <<"c">>, <<>>)

\* The parsed sets handed to the store: the sets of the upload files, a set
\* that brings d1 again with a new payload, a set that holds d1 twice, and
\* sets of one category whose list order is not the order of the ids.
StoreInputs ==
    {FileA.data, FileB.data, FileAB.data,
     MkParsed(<<"catA">>, <<DefA2>>),
     MkParsed(<<"catA">>, <<DefA, DefA2>>),
     MkParsed(<<"catA">>, <<DefTie, DefA>>),
     MkParsed(<<"catA">>, <<DefA, DefEarly>>)}

\* The last call made on the store: its name, its argument, the store as the
\* call found it, and the name of the call before it.
StoreCall(fn, data) ==
    [fn |-> fn, called |-> TRUE, data |-> data, before |-> store, prevFn |-> probe.fn]

\* clear() resolves: its init() has given it the open database.
DbClear ==
    /\ conn.db # 0
    /\ Commit(StoreClear(store))
    /\ probe' = StoreCall("clear", MkParsed(<<>>, <<>>))
    /\ UNCHANGED <<indexVars, svcSearch, appVars, run, justCompleted, orchVars, conn>>

\* saveParsedData(data) resolves.
DbSaveParsedData ==
    /\ conn.db # 0
    /\ \E data \in StoreInputs :
          /\ Commit(SaveParsedData(store, data))
          /\ probe' = StoreCall("saveParsedData", data)
    /\ UNCHANGED <<indexVars, svcSearch, appVars, run, justCompleted, orchVars, conn>>

\* appendParsedData(data) resolves.
DbAppendParsedData ==
    /\ conn.db # 0
    /\ \E data \in StoreInputs :
          /\ Commit(AppendParsedData(store, data))
          /\ probe' = StoreCall("appendParsedData", data)
    /\ UNCHANGED <<indexVars, svcSearch, appVars, run, justCompleted, orchVars, conn>>

\* The service as constructed: no database opened yet, the stores empty.
StoreInit ==
    /\ FreshService
    /\ IngestInit
    /\ Unmounted
    /\ probe = NoProbe
    /\ conn = ClosedConn

StoreNext ==
    \/ InitCall
    \/ OpenSucceeds
    \/ OpenFails
    \/ DbClear
    \/ DbSaveParsedData
    \/ DbAppendParsedData

\* The storage service under init() calls that overlap and store operations
\* in any order.
SpecStore == StoreInit /\ [][StoreNext]_vars

---------------------------------------------------------------------------
(* buildIndex calls made one after another                                 *)

\* What decides the outcome of a search: the index object, the hydration map
\* and the flag.
ServiceSnapshot ==
    [isNull |-> index.isNull, docs |-> index.docs, map |-> definitionsMap,
     indexed |-> isIndexed]

\* What search(query, o) gives on a service in the state snap: the error of
\* its guard, or its results.
SearchOutcome(snap, query, o) ==
    IF SearchNotReady([isNull |-> snap.isNull, docs |-> snap.docs], snap.indexed)
    THEN <<"Search index not initialized">>
    ELSE SearchResults(snap.docs, snap.map, query, o)

\* buildIndex(definitions) is called once the call before it has settled.
\* The record keeps the argument, the service as the call found it, and
\* whether the call before it was a buildIndex of the same argument.
RebuildCall ==
    /\ \E definitions \in DefinitionLists :
          /\ BuildIndexStart(definitions)
          /\ probe' = [fn |-> "buildIndex", called |-> TRUE, definitions |-> definitions,
                       found |-> ServiceSnapshot,
                       again |-> (probe.fn = "buildIndex" /\ probe.definitions = definitions)]
    /\ UNCHANGED <<svcSearch, ingestVars, orchVars, conn>>

\* The addAsync that the build awaits resolves.
RebuildAddResolved ==
    /\ BuildIndexResume
    /\ UNCHANGED <<svcSearch, ingestVars, orchVars, probe, conn>>

\* clear() is called between two builds.
RebuildClear ==
    /\ build.status # "adding"
    /\ ServiceClear
    /\ probe' = [fn |-> "clear", called |-> TRUE]
    /\ UNCHANGED <<build, svcSearch, ingestVars, orchVars, conn>>

RebuildNext ==
    \/ RebuildCall
    \/ RebuildAddResolved
    \/ RebuildClear

\* The search index service under buildIndex and clear calls made one after
\* another, each after the one before it has settled.
SpecRebuild == SvcInit /\ [][RebuildNext]_vars

---------------------------------------------------------------------------
(* Claims about the search index service                                   *)

\* The ids that hold postings in the engine.
IndexedIds == {index.docs[i].definitionId : i \in 1..Len(index.docs)}

InLoad == run.status = "loading" /\ Head(run.todo) \in SeqRange(LoadSteps)

\* C5: once an upload run has entered loadDataFromDB (and so before it reads
\* getAllDefinitions and starts buildIndex) none of its store mutations is
\* still to come, and the hydration map never holds a definition that has not
\* been committed to the store.
C5_StoreMutationPrecedesRebuild ==
    /\ InLoad => \A k \in 1..Len(run.todo) : run.todo[k] \notin MutationSteps
    /\ definitionsMap \subseteq storedEver

\* A multi-file run is awaiting addAsync inside buildIndex after both of its
\* appends have committed.
C5_Witness ==
    /\ run.kind = "multi"
    /\ Awaiting("build")
    /\ build.status = "adding"
    /\ store.definitions = {DefA, DefB}
    /\ definitionsMap # {}

\* C2: the results on display are never those of a search that was started
\* before the most recently started one: the outcome of an earlier search is
\* discarded when it arrives.
C2_LastStartedSearchWins ==
    surfaced # "superseded"

\* C3: after a buildIndex call has rejected, isReady() does not report
\* readiness, also when an earlier build had succeeded.
C3_NotReadyAfterFailedBuild ==
    build.status = "failed" => ~IsReady

\* C4: once buildIndex(documents) has completed, every search gives what it
\* gives on a fresh index built from documents alone.
C4_BuildDiscardsPriorIndex ==
    (build.status = "done" /\ ~SearchNotReady(index, isIndexed)) =>
        \A q \in SvcQueries, o \in SvcOptions :
            SearchResults(index.docs, definitionsMap, q, o)
                = SearchResults(FreshDocs(build.definitions),
                                FreshMap(build.definitions), q, o)

\* C6: a search called when no buildIndex has completed since construction
\* or since the last clear() throws the not-ready error; in every such state
\* the guard of search and searchNames rejects the call.
C6_SearchBeforeBuildThrows ==
    /\ ~builtSinceClear => SearchNotReady(index, isIndexed)
    /\ (svcSearch.phase # "idle" /\ ~svcSearch.builtAtCall) => svcSearch.phase = "threw"

C6_Witness ==
    /\ svcSearch.phase = "threw"
    /\ ~svcSearch.builtAtCall
    /\ ~builtSinceClear
    /\ index.isNull
    /\ build.status = "done"

\* C7: isReady() is true exactly when a buildIndex call has resolved since the
\* last clear(); so it is false initially and right after every clear().
C7_ReadyIffBuiltSinceClear ==
    IsReady <=> builtSinceClear

C7_Witness ==
    /\ build.status = "done"
    /\ build.definitions # <<>>
    /\ index.isNull
    /\ ~IsReady

\* C8: at most one debounce timer is pending, it is a 300ms timer started by
\* the effect of the current render (the most recent change of the query or of
\* a filter), and performSearch has only ever run from such a timer: a timer
\* superseded by a later change never fires.
C8_OneDebounceTimer ==
    /\ Cardinality(timers) <= 1
    /\ \A t \in timers : t.deps = CurrentDeps /\ t.delay = 300
    /\ fired.current

\* performSearch has run, and a later change has cancelled the timer that was
\* pending and started the one that is pending now.
C8_Witness ==
    /\ fired.ran
    /\ \E t \in timers : t.superseding /\ t.deps.searchQuery = <<"a", "b">>

\* C9: a run of performSearch with a query shorter than 2 characters sets the
\* empty result list and does not call search, whether the index is ready or
\* not.
C9_ShortQueryShortCircuits ==
    (fired.ran /\ Len(fired.query) < 2) =>
        /\ ~fired.invoked
        /\ fired.setEmpty

\* performSearch has run with a one-character query over an index that is not
\* ready.
C9_Witness ==
    /\ fired.ran
    /\ fired.query = <<"a">>
    /\ SearchNotReady(index, isIndexed)
    /\ searchResults = <<>>

\* C10: a search never returns more results than its limit (50 when the
\* options give none).
C10_ResultsWithinLimit ==
    svcSearch.phase = "done" => Len(svcSearch.results) <= OptLimit(svcSearch.options)

\* C11: in the result of one search call each definitionId appears at most
\* once, and the match reported for a definition names the first of the
\* searched fields, in the order [definitionName, content], whose text matches
\* the query.
C11_OncePerDocumentFirstField ==
    svcSearch.phase = "done" =>
        LET rs == svcSearch.results
            fields == OptFields(svcSearch.options)
        IN  /\ \A i, j \in 1..Len(rs) :
                  i # j => rs[i].definition.definitionId # rs[j].definition.definitionId
            /\ \A i \in 1..Len(rs) :
                  LET doc == SearchDocument(rs[i].definition)
                      matching == {k \in 1..Len(fields) :
                                      FlexMatch(doc[fields[k]], svcSearch.query)}
                  IN  /\ matching # {}
                      /\ \A k \in matching :
                            (\A m \in matching : k <= m) =>
                                rs[i].matches[1].field = fields[k]

\* The definition passes the definitionType and categoryId filters of o.
PassesFilters(d, o) ==
    /\ o.definitionType = "" \/ d.definitionType = o.definitionType
    /\ o.categoryId = "" \/ d.categoryId = o.categoryId

\* Some searched field of the definition matches the query.
MatchesQuery(d, fields, query) ==
    \E k \in 1..Len(fields) : FlexMatch(SearchDocument(d)[fields[k]], query)

\* C12: over a built index, every result of a search with a definitionType
\* and/or categoryId option has that type and that category, and a definition
\* that matches the query and the filters is in the result unless the result
\* already holds limit entries: it is not lost to entries that the filters
\* reject.
C12_FiltersExactAndComplete ==
    (build.status = "done" /\ ~SearchNotReady(index, isIndexed)) =>
        \A q \in SvcQueries, o \in SvcOptions :
            LET rs == SearchResults(index.docs, definitionsMap, q, o)
            IN  /\ \A i \in 1..Len(rs) : PassesFilters(rs[i].definition, o)
                /\ Len(rs) < OptLimit(o) =>
                      \A d \in definitionsMap :
                          (PassesFilters(d, o) /\ MatchesQuery(d, OptFields(o), q)) =>
                              \E i \in 1..Len(rs) : rs[i].definition = d

\* The 1-based offsets at which the query occurs in the text, letter case
\* aside.
Occurrences(text, query) ==
    {p \in 1..(Len(text) - Len(query) + 1) :
        ToLowerCase(SubSeq(text, p, p + Len(query) - 1)) = ToLowerCase(query)}

NameContentAndSnippets(result) ==
    ToLowerCase(Join(<<result.definition.definitionName,
                       ExtractDefinitionContent(result.definition)>>
                     \o [i \in 1..Len(result.matches) |-> result.matches[i].snippet],
                     <<" ">>))

\* The content route is at rest on the outcome of an advanced search over a
\* ready index: its last performSearch called search with the current state
\* and that search has resolved.
AtRestOnAdvancedSearch ==
    /\ route = "content"
    /\ timers = {}
    /\ inflight = <<>>
    /\ fired.ran /\ fired.invoked
    /\ surfaced = "latest"
    /\ searchMode = "advanced"
    /\ AdvancedKeywords(advancedSearchQuery) # <<>>
    /\ ~SearchNotReady(index, isIndexed)

\* C14: the advanced filter keeps a primary result under AND exactly when the
\* searchable text (document name + content + all snippets, joined and
\* lower-cased) contains every keyword of the advanced string (split on ';',
\* trimmed, lower-cased, empties dropped), and under OR exactly when it
\* contains at least one.
C14_AdvancedFilterByNameContentSnippets ==
    AtRestOnAdvancedSearch =>
        LET primary == SearchResults(index.docs, definitionsMap, searchQuery,
                                     OrchOptions(route, CurrentDeps))
            keywords == AdvancedKeywords(advancedSearchQuery)
            Holds(r, k) == Includes(NameContentAndSnippets(r), keywords[k])
            Keeps(r) == IF advancedSearchLogic = "AND"
                        THEN \A k \in 1..Len(keywords) : Holds(r, k)
                        ELSE \E k \in 1..Len(keywords) : Holds(r, k)
        IN  \A i \in 1..Len(primary) :
                (\E j \in 1..Len(searchResults) : searchResults[j] = primary[i])
                    <=> Keeps(primary[i])

\* C15: while a single-file (replace) ingestion is between its clear and the
\* end of its save, the store holds either the complete content the clear
\* found or the complete new content, never an empty or partly written one.
C15_ReplaceIsAtomic ==
    (run.kind = "single" /\ Awaiting("save")) =>
        \/ store = run.prior
        \/ store = SaveParsedData(EmptyStore, run.parsed)

---------------------------------------------------------------------------
(* Claims about the storage service                                        *)

\* The definitionIds of a list are pairwise distinct.
DistinctIds(list) ==
    \A i, j \in 1..Len(list) : i # j => list[i].definitionId # list[j].definitionId

\* saveParsedData(documents) has just resolved, right after a clear().
AfterReplace == probe.fn = "saveParsedData" /\ probe.prevFn = "clear"

\* C16 (as stated): after a replace ingestion of a list documents,
\* getAllDefinitions() returns exactly documents.length documents and
\* countDefinitions() equals documents.length.
C16_ReplaceStoresEveryDocument ==
    AfterReplace =>
        /\ Len(GetAllDefinitions(store)) = Len(probe.data.userDefinitions)
        /\ CountDefinitions(store) = Len(probe.data.userDefinitions)

\* C16 (amended): after a replace ingestion of a list documents whose
\* definitionIds are pairwise distinct, getAllDefinitions() returns exactly
\* documents.length documents and countDefinitions() equals documents.length.
C16_ReplaceStoresEveryDistinctDocument ==
    (AfterReplace /\ DistinctIds(probe.data.userDefinitions)) =>
        /\ Len(GetAllDefinitions(store)) = Len(probe.data.userDefinitions)
        /\ CountDefinitions(store) = Len(probe.data.userDefinitions)

\* A list of two documents has replaced a store that held another payload.
C16_Witness ==
    /\ AfterReplace
    /\ probe.data.userDefinitions = <<DefA, DefB>>
    /\ DefA2 \in storedEver
    /\ GetAllDefinitions(store) = <<DefA, DefB>>

\* The last document of a list that carries an id.
LastWithId(list, id) ==
    list[CHOOSE i \in 1..Len(list) :
            /\ list[i].definitionId = id
            /\ \A j \in (i + 1)..Len(list) : list[j].definitionId # id]

\* The ids of a list of definitions.
IdsOf(list) == {list[i].definitionId : i \in 1..Len(list)}

\* C17: a write without a clear (saveParsedData or appendParsedData) of a
\* document whose definitionId is already stored leaves exactly one document
\* with that id, holding the newly written payload, and every document with
\* another id is as it was.
C17_WriteOverwritesById ==
    probe.fn \in {"saveParsedData", "appendParsedData"} =>
        LET docs == probe.data.userDefinitions
            was == probe.before.definitions
        IN  /\ \A id \in IdsOf(docs) :
                  /\ Cardinality({d \in store.definitions : d.definitionId = id}) = 1
                  /\ LastWithId(docs, id) \in store.definitions
            /\ \A d \in was : d.definitionId \notin IdsOf(docs) => d \in store.definitions
            /\ \A d \in store.definitions : d.definitionId \notin IdsOf(docs) => d \in was

\* d1 was stored with one payload beside d2 and is appended with another.
C17_Witness ==
    /\ probe.fn = "appendParsedData"
    /\ probe.before.definitions = {DefA, DefB}
    /\ probe.data.userDefinitions = <<DefA2>>
    /\ store.definitions = {DefA2, DefB}

\* The same with saveParsedData called without a clear before it.
C17_WitnessSave ==
    /\ probe.fn = "saveParsedData"
    /\ probe.prevFn # "clear"
    /\ probe.before.definitions = {DefA, DefB}
    /\ probe.data.userDefinitions = <<DefA2>>
    /\ store.definitions = {DefA2, DefB}

\* C20: init() is idempotent: however many init() calls are made, one after
\* another or overlapping, indexedDB.open is called at most once and every
\* call that resolves gets the same database handle.
C20_InitIdempotent ==
    /\ conn.opens <= 1
    /\ Cardinality(conn.results \ {Rejected}) <= 1

\* Two calls waited for the same open, it succeeded, and a later call was
\* answered from db: all of them hold handle 1.
C20_Witness ==
    /\ conn.calls = MaxInitCalls
    /\ conn.waiting = 0
    /\ conn.overlapped
    /\ conn.results = {1}

\* C18: when clearData has completed after an ingestion, countDefinitions()
\* is 0, getCategories() is empty, the metadata store holds no entry, and the
\* search index reports isReady() = false.
C18_ClearDataEmptiesEverything ==
    justCompleted = "clearData" =>
        /\ CountDefinitions(store) = 0
        /\ GetCategories(store) = {}
        /\ store.meta.keys = {}
        /\ ~IsReady

\* clearData has completed after an upload that stored definitions and ended
\* in success.
C18_Witness ==
    /\ justCompleted = "clearData"
    /\ run.status = "success"
    /\ storedEver # {}
    /\ builtSinceClear = FALSE
    /\ store = EmptyStore

\* The files of the multi-file run that the loop has finished with.
Processed == 1..(run.i - 1)

\* The loop of the multi-file run is over.
LoopOver == run.status # "loading" \/ Head(run.todo) \notin {"clear", "parse", "append"}

C19_WitnessStore ==
    /\ run.kind = "multi"
    /\ run.files[1].ok
    /\ run.fileStatus = <<"error", "success">>
    /\ ~run.interrupted
    /\ LoopOver

\* The categories of the model.
CategoryIds == {"catA", "catB"}

\* A list is in ascending order of sortNumber.
Ascending(list) ==
    \A i, j \in 1..Len(list) : i < j => list[i].sortNumber <= list[j].sortNumber

\* C21: getDefinitionsByCategory(categoryId) returns exactly the stored
\* definitions whose categoryId is the argument, each once, in ascending
\* order of sortNumber.
C21_ByCategorySorted ==
    \A c \in CategoryIds :
        LET result == GetDefinitionsByCategory(store, c)
            stored == {d \in store.definitions : d.categoryId = c}
        IN  /\ SeqRange(result) = stored
            /\ Len(result) = Cardinality(stored)
            /\ Ascending(result)

\* catA holds d1 (sortNumber 1) and d3 (sortNumber 0), catB holds d2: the
\* read of catA gives d3 before d1 and leaves d2 out.
C21_Witness ==
    /\ store.definitions = {DefA, DefEarly, DefB}
    /\ GetDefinitionsByCategory(store, "catA") = <<DefEarly, DefA>>
    /\ GetDefinitionsByCategory(store, "catB") = <<DefB>>

\* The place of a definition in a list of definitions with distinct ids.
PlaceIn(list, d) == CHOOSE i \in 1..Len(list) : list[i].definitionId = d.definitionId

\* Definitions of equal sortNumber follow one another in result as in list.
TiesAsIn(result, list) ==
    \A i, j \in 1..Len(result) :
        (i < j /\ result[i].sortNumber = result[j].sortNumber) =>
            PlaceIn(list, result[i]) < PlaceIn(list, result[j])

\* C27: after a list with distinct ids has been stored into the cleared store,
\* definitions of one category with equal sortNumber are returned by
\* getDefinitionsByCategory, and by buildFileTree of the list, in the order in
\* which the list held them.
C27_TiesInInsertionOrder ==
    (AfterReplace /\ DistinctIds(probe.data.userDefinitions)) =>
        /\ \A c \in CategoryIds :
              TiesAsIn(GetDefinitionsByCategory(store, c), probe.data.userDefinitions)
        /\ \A c \in 1..Len(probe.data.userCategories) :
              TiesAsIn(BuildFileTree(probe.data)[c].children, probe.data.userDefinitions)

\* The half of C27 that is about buildFileTree.
C27_FileTreeTiesInInsertionOrder ==
    (AfterReplace /\ DistinctIds(probe.data.userDefinitions)) =>
        \A c \in 1..Len(probe.data.userCategories) :
            TiesAsIn(BuildFileTree(probe.data)[c].children, probe.data.userDefinitions)

---------------------------------------------------------------------------
(* Claims about the text functions                                         *)

\* C22: extractDefinitionContent returns the query string as it is when the
\* definitionType is sql and the payload holds a query string, else the script
\* string as it is when the definitionType is javascript and the payload holds
\* a script string, else the serialization of the payload; and the call made
\* at display time returns the text of the call made at index-build time.
C22_ExtractContent ==
    (probe.fn = "extractDefinitionContent" /\ probe.called) =>
        LET d == probe.definition
        IN  /\ ~probe.threw
            /\ probe.out =
                  IF d.definitionType = "sql" /\ probe.queryPresent THEN d.query
                  ELSE IF d.definitionType = "javascript" /\ probe.scriptPresent THEN d.script
                  ELSE Stringify(d)
            /\ probe.displayed => probe.outAtDisplay = probe.out

\* The same for definitions that have definitionData and whose query and
\* script strings, where present, are not empty.
C22_ExtractContentOfNonEmptyStrings ==
    (probe.fn = "extractDefinitionContent" /\ probe.called
        /\ probe.definition.hasData
        /\ (probe.queryPresent => probe.definition.query # <<>>)
        /\ (probe.scriptPresent => probe.definition.script # <<>>)) =>
        LET d == probe.definition
        IN  /\ ~probe.threw
            /\ probe.out =
                  IF d.definitionType = "sql" /\ probe.queryPresent THEN d.query
                  ELSE IF d.definitionType = "javascript" /\ probe.scriptPresent THEN d.script
                  ELSE Stringify(d)
            /\ probe.displayed => probe.outAtDisplay = probe.out

\* A sql definition whose query string is empty is given the serialization
\* of its payload.
C22_EmptyQueryReached ==
    /\ probe.fn = "extractDefinitionContent"
    /\ probe.called
    /\ probe.definition.definitionType = "sql"
    /\ probe.queryPresent
    /\ probe.definition.query = <<>>
    /\ probe.out = Stringify(probe.definition)

---------------------------------------------------------------------------
(* Claims about the search component under overlapping searches            *)

\* C29: isSearching is true whenever a search started by performSearch has
\* not yet resolved; so a search that resolves while a later one is still in
\* flight leaves it true.
C29_SearchingWhileInFlight ==
    inflight # <<>> => isSearching

---------------------------------------------------------------------------
(* Claims about clear() during a build                                     *)

\* C28: in every reachable state, isReady() = true implies that search()
\* does not throw the index-not-ready error; also after clear() has been
\* called while buildIndex was suspended at an await and the build has gone
\* on.
C28_ReadyMeansSearchable ==
    IsReady => ~SearchNotReady(index, isIndexed)

\* C30: once loadDataFromDB and a clearData that ran beside it have both
\* completed, isDataLoaded = true implies that the index is ready (a search
\* passes its guard) and that it holds no definition that the store does not
\* hold.
C30_LoadedMeansConsistentIndex ==
    (run.status # "loading" /\ isDataLoaded) =>
        /\ ~SearchNotReady(index, isIndexed)
        /\ definitionsMap \subseteq store.definitions

---------------------------------------------------------------------------
(* Claims about the upload handlers                                        *)

\* The multi-file run is between its files: it awaits the parse or the store
\* call of one of them.
InFileLoop == run.status = "loading" /\ Head(run.todo) \in {"parse", "append"}

\* C24: a multi-file upload calls buildIndex once: never while it is between
\* its files, only after the last file has been processed, and a run that ends
\* in success has called it exactly once.
C24_OneRebuildAfterLastSet ==
    run.kind = "multi" =>
        /\ run.builds <= 1
        /\ InFileLoop => (run.builds = 0 /\ build.status # "adding")
        /\ run.builds = 1 => run.i = Len(run.files) + 1
        /\ run.status = "success" => run.builds = 1

\* A run over two files has stored both and has ended in success after one
\* build over the definitions of both.
C24_Witness ==
    /\ run.kind = "multi"
    /\ run.status = "success"
    /\ run.fileStatus = <<"success", "success">>
    /\ run.builds = 1
    /\ build.status = "done"
    /\ Len(build.definitions) = 2

\* An upload run has come to its end, in success or in error.
RunOver == run.kind # "none" /\ run.status \in {"success", "error"}

\* C25: after every ingestion event (an upload run that has come to its end)
\* the definitionCount and categoryCount published in stats, and the entries
\* of those names in the metadata store where present, equal the number of
\* definitions and of categories in the store.
C25_CountersMatchStore ==
    RunOver =>
        /\ stats.definitionCount = CountDefinitions(store)
        /\ stats.categoryCount = Cardinality(GetCategories(store))
        /\ "definitionCount" \in store.meta.keys =>
              store.meta.definitionCount = CountDefinitions(store)
        /\ "categoryCount" \in store.meta.keys =>
              store.meta.categoryCount = Cardinality(GetCategories(store))

\* The metadata half of C25 at the store: after saveParsedData into the
\* cleared store the two counters equal what the store holds.
C25_MetadataMatchesStoreAfterReplace ==
    AfterReplace =>
        /\ store.meta.definitionCount = CountDefinitions(store)
        /\ store.meta.categoryCount = Cardinality(GetCategories(store))

---------------------------------------------------------------------------
(* Claims about repeated builds                                            *)

\* The second of two buildIndex calls in a row with the same argument has
\* settled.
BuiltTwice == probe.fn = "buildIndex" /\ probe.again /\ build.status # "adding"

\* C23: when buildIndex(docs) has been called twice in a row with the same
\* docs, every query with every options object gets from search what it got
\* after the first of the two calls.
C23_BuildTwiceAsOnce ==
    BuiltTwice =>
        \A q \in SvcQueries, o \in SvcOptions :
            SearchOutcome(ServiceSnapshot, q, o) = SearchOutcome(probe.found, q, o)

\* [d2, d1] has been built twice over an index that held d1 from a build
\* before, and the search for "ab" has results.
C23_Witness ==
    /\ BuiltTwice
    /\ build.status = "done"
    /\ probe.definitions = <<DefB, DefA>>
    /\ probe.found.docs = <<SearchDocument(DefB), SearchDocument(DefA)>>
    /\ SearchOutcome(ServiceSnapshot, <<"a", "b">>, MkOptions(FALSE, 0, FALSE, <<>>, "", ""))
          # <<>>

====
